---- MODULE Spec2Model ----
(***************************************************************************)
(* TaskMaster (src/taskmaster.py): the in-memory task list of the Tk       *)
(* application, its handlers (add, toggle, delete, edit, clear, filter,    *)
(* search, sort) and the view they refresh.                                *)
(*                                                                         *)
(* A Python str is modelled as a sequence of one-character strings, so     *)
(* that strip(), lower(), "in", split('-') and the f-string that builds a  *)
(* due date are computed as the code computes them.                        *)
(***************************************************************************)
EXTENDS Integers, Sequences, FiniteSets, TLC

VARIABLES tasks, filter_state, sort_column, sort_reverse, search_var, tree

vars == <<tasks, filter_state, sort_column, sort_reverse, search_var, tree>>

(* ---------------------------------------------------------------------- *)
(* Bounds and input sets                                                  *)
(* ---------------------------------------------------------------------- *)

\* No task is added once the list holds this many: MaxTasks under Spec,
\* SpecView and SpecSorted, MaxStore under SpecStore, the operations on the
\* list alone.
MaxTasks == 2
MaxStore == 3

\* The longest list a tasks.json found at startup holds, under SpecLoaded.
MaxSaved == 3

Empty == << >>
Blank == <<" ">>
TextA == <<"a">>
TextAB == <<"a", "B">>

\* What the user types in the "Task:" entry of the New Task window.
AddTexts == {Empty, Blank, TextA, TextAB}

\* What the user leaves in the entry of the Edit Task window.
EditTexts == {Empty, Blank, TextAB}

\* What the user types in the search entry.
SearchInputs == {Empty, <<" ", "b">>}

\* The contents of the month / day / year / priority boxes at submit.  The
\* three date boxes are editable, so the month may hold a typed "1-2".
DetailedInputs ==
    { [month |-> <<"0", "1">>, day |-> <<"0", "5">>, year |-> <<"2", "0", "2", "4">>,
       priority |-> <<"H", "i", "g", "h">>],
      [month |-> <<"1", "-", "2">>, day |-> <<"0", "5">>, year |-> <<"2", "0", "2", "4">>,
       priority |-> <<"H", "i", "g", "h">>] }

\* datetime.now(), as [month, day, year] strings.
Todays == { [month |-> <<"0", "1">>, day |-> <<"0", "5">>, year |-> <<"2", "0", "2", "4">>] }

Low == <<"L", "o", "w">>
Normal == <<"N", "o", "r", "m", "a", "l">>
High == <<"H", "i", "g", "h">>
Due2025 == <<"0", "2", "-", "0", "1", "-", "2", "0", "2", "5">>
Due2024 == <<"0", "1", "-", "0", "5", "-", "2", "0", "2", "4">>
TextQuote == <<"a", "\"">>

\* Tasks of a tasks.json saved by an earlier session: each as the New Task
\* window builds it (no date and no priority, or a date and one of the three
\* priorities of the box), some of them toggled since.
SavedTasks ==
    { [text |-> TextA, due |-> << >>, priority |-> << >>, completed |-> FALSE],
      [text |-> TextAB, due |-> << >>, priority |-> << >>, completed |-> TRUE],
      [text |-> TextA, due |-> Due2025, priority |-> Low, completed |-> FALSE],
      [text |-> TextAB, due |-> Due2024, priority |-> Low, completed |-> TRUE],
      [text |-> TextQuote, due |-> Due2024, priority |-> Normal, completed |-> FALSE],
      [text |-> TextAB, due |-> Due2025, priority |-> High, completed |-> FALSE],
      [text |-> TextA, due |-> Due2024, priority |-> High, completed |-> TRUE] }

\* The lists of at most n tasks of SavedTasks.
SavedLists(n) == UNION {[1..len -> SavedTasks] : len \in 0..n}

FilterStates == {"all", "active", "completed"}
SortKeys == {"completed", "text", "due", "priority"}
None == "None"

(* ---------------------------------------------------------------------- *)
(* Python str operations                                                  *)
(* ---------------------------------------------------------------------- *)

IsSpace(c) == c = " "

RECURSIVE LStrip(_)
LStrip(s) == IF s # << >> /\ IsSpace(Head(s)) THEN LStrip(Tail(s)) ELSE s

RECURSIVE RStrip(_)
RStrip(s) ==
    IF s # << >> /\ IsSpace(s[Len(s)]) THEN RStrip(SubSeq(s, 1, Len(s) - 1)) ELSE s

\* str.strip()
Strip(s) == RStrip(LStrip(s))

LowerChar(c) ==
    CASE c = "A" -> "a"
      [] c = "B" -> "b"
      [] c = "F" -> "f"
      [] c = "H" -> "h"
      [] c = "L" -> "l"
      [] c = "N" -> "n"
      [] c = "T" -> "t"
      [] OTHER -> c

\* str.lower()
Lower(s) == [i \in 1..Len(s) |-> LowerChar(s[i])]

\* sub in s
Contains(s, sub) ==
    \E i \in 0..(Len(s) - Len(sub)) : SubSeq(s, i + 1, i + Len(sub)) = sub

\* s.split('-')
RECURSIVE Split(_)
Split(s) ==
    IF \A i \in 1..Len(s) : s[i] # "-"
    THEN <<s>>
    ELSE LET k == CHOOSE i \in 1..Len(s) : s[i] = "-" /\ \A j \in 1..(i - 1) : s[j] # "-"
         IN  <<SubSeq(s, 1, k - 1)>> \o Split(SubSeq(s, k + 1, Len(s)))

\* f"{m}-{d}-{y}"
FormatDue(m, d, y) == m \o <<"-">> \o d \o <<"-">> \o y

(* ---------------------------------------------------------------------- *)
(* The view                                                               *)
(* ---------------------------------------------------------------------- *)

\* The members of a set of positions, in increasing order.
Ascending(S) ==
    [k \in 1..Cardinality(S) |-> CHOOSE i \in S : Cardinality({j \in S : j < i}) = k - 1]

\* Shown with the "active" test inverted: "Show Active" hides the tasks that
\* are not completed.
Shown_active_inverted(ts, fstate, search) ==
    LET search_text == Strip(Lower(search))
        Keep(i) ==
            /\ ~(fstate = "active" /\ ~ts[i].completed)
            /\ ~(fstate = "completed" /\ ~ts[i].completed)
            /\ ~(search_text # << >> /\ ~Contains(Lower(ts[i].text), search_text))
    IN  Ascending({i \in 1..Len(ts) : Keep(i)})

\* The loop of update_task_list: the positions of the tasks that are shown.
Shown(ts, fstate, search) ==
    LET search_text == Strip(Lower(search))
        Keep(i) ==
            /\ ~(fstate = "active" /\ ts[i].completed)
            /\ ~(fstate = "completed" /\ ~ts[i].completed)
            /\ ~(search_text # << >> /\ ~Contains(Lower(ts[i].text), search_text))
    IN  Ascending({i \in 1..Len(ts) : Keep(i)})

\* The check mark (U+2713) of the first column.
CheckMark == "U+2713"

Row(t) ==
    [completed_mark |-> IF t.completed THEN CheckMark ELSE "",
     text |-> t.text, due |-> t.due, priority |-> t.priority,
     tags |-> IF t.completed THEN <<"completed">> ELSE << >>]

\* update_task_list comparing the search text with the text as stored, without
\* lower().
update_task_list_case_sensitive(ts, fstate, search) ==
    LET search_text == Strip(Lower(search))
        Keep(i) ==
            /\ ~(fstate = "active" /\ ts[i].completed)
            /\ ~(fstate = "completed" /\ ~ts[i].completed)
            /\ ~(search_text # << >> /\ ~Contains(ts[i].text, search_text))
        idx == Ascending({i \in 1..Len(ts) : Keep(i)})
    IN  [k \in 1..Len(idx) |-> Row(ts[idx[k]])]

\* update_task_list: the rows the tree holds afterwards.
update_task_list(ts, fstate, search) ==
    LET idx == Shown(ts, fstate, search)
    IN  [k \in 1..Len(idx) |-> Row(ts[idx[k]])]

(* ---------------------------------------------------------------------- *)
(* The handlers, as functions of the task list                            *)
(* ---------------------------------------------------------------------- *)

Boxes(m, d, y, p) == [month |-> m, day |-> d, year |-> y, priority |-> p]

\* submit with insert(0, task) for append(task).
submit_at_front(ts, task_text, simple, boxes) ==
    IF Strip(task_text) = << >>
    THEN ts
    ELSE <<[text |-> task_text,
            due |-> IF simple THEN << >>
                    ELSE FormatDue(boxes.month, boxes.day, boxes.year),
            priority |-> IF simple THEN << >> ELSE boxes.priority,
            completed |-> FALSE]>> \o ts

\* submit testing task_text without strip().
submit_no_strip(ts, task_text, simple, boxes) ==
    IF task_text = << >>
    THEN ts
    ELSE Append(ts,
                [text |-> task_text,
                 due |-> IF simple THEN << >>
                         ELSE FormatDue(boxes.month, boxes.day, boxes.year),
                 priority |-> IF simple THEN << >> ELSE boxes.priority,
                 completed |-> FALSE])

\* open_task_window.submit: the list after Submit with task_text in the entry;
\* simple = the dialog without date and priority boxes.
submit(ts, task_text, simple, boxes) ==
    IF Strip(task_text) = << >>
    THEN ts
    ELSE Append(ts,
                [text |-> task_text,
                 due |-> IF simple THEN << >>
                         ELSE FormatDue(boxes.month, boxes.day, boxes.year),
                 priority |-> IF simple THEN << >> ELSE boxes.priority,
                 completed |-> FALSE])

Matches(ts, task_text) == {i \in 1..Len(ts) : ts[i].text = task_text}

\* The task a left-to-right scan for task_text stops at.
FirstMatch(ts, task_text) ==
    CHOOSE i \in Matches(ts, task_text) : \A j \in Matches(ts, task_text) : i <= j

\* toggle_completion without the break: every match is flipped.
toggle_completion_no_break(ts, task_text) ==
    [i \in 1..Len(ts) |->
        IF ts[i].text = task_text
        THEN [ts[i] EXCEPT !.completed = ~ts[i].completed]
        ELSE ts[i]]

\* toggle_completion assigning True instead of the negation.
toggle_completion_set_true(ts, task_text) ==
    IF Matches(ts, task_text) = {}
    THEN ts
    ELSE LET k == FirstMatch(ts, task_text)
         IN  [ts EXCEPT ![k].completed = TRUE]

\* toggle_completion
toggle_completion(ts, task_text) ==
    IF Matches(ts, task_text) = {}
    THEN ts
    ELSE LET k == FirstMatch(ts, task_text)
         IN  [ts EXCEPT ![k].completed = ~ts[k].completed]

\* delete_selected_task removing the first match only.
delete_selected_task_first_only(ts, task_text) ==
    IF Matches(ts, task_text) = {}
    THEN ts
    ELSE LET k == FirstMatch(ts, task_text)
         IN  SubSeq(ts, 1, k - 1) \o SubSeq(ts, k + 1, Len(ts))

\* delete_selected_task: the list comprehension that replaces self.tasks.
delete_selected_task(ts, task_text) ==
    LET Keep(t) == t.text # task_text IN SelectSeq(ts, Keep)

\* edit_task, lines 418-449: what the date and priority boxes show when the
\* Edit Task window opens on task t.
Prefill(t, today) ==
    LET parts == Split(t.due)
    IN  IF t.due # << >> /\ Len(parts) = 3
        THEN Boxes(parts[1], parts[2], parts[3], t.priority)
        ELSE Boxes(today.month, today.day, today.year, t.priority)

\* The user touches none of the date and priority boxes.
NoChange == << >>

\* edit_task with save_edit: the Edit Task window is opened on the row
\* old_text, the user leaves new_text in the entry, either leaves the boxes
\* as they were filled in (typed = NoChange) or overwrites them (typed =
\* <<boxes>>),
\* and presses Save.
edit_task(ts, old_text, new_text, typed, today) ==
    IF Matches(ts, old_text) = {}
    THEN ts
    ELSE LET k == FirstMatch(ts, old_text)
             task == ts[k]
             is_detailed == task.due # << >> \/ task.priority # << >>
             boxes == IF typed = NoChange THEN Prefill(task, today) ELSE typed[1]
         IN  IF new_text = << >>
             THEN ts
             ELSE IF is_detailed
                  THEN [ts EXCEPT ![k].text = new_text,
                                  ![k].due = FormatDue(boxes.month, boxes.day, boxes.year),
                                  ![k].priority = boxes.priority]
                  ELSE [ts EXCEPT ![k].text = new_text]

\* clear_all_tasks; yes = the answer to the confirmation dialog.
clear_all_tasks(ts, yes) ==
    IF ts = << >> THEN ts
    ELSE IF yes THEN << >> ELSE ts

\* clear_completed_tasks removing the first completed task only.
clear_completed_tasks_first_only(ts, yes) ==
    IF ~\E i \in 1..Len(ts) : ts[i].completed
    THEN ts
    ELSE IF yes
         THEN LET k == CHOOSE i \in 1..Len(ts) :
                          ts[i].completed /\ \A j \in 1..(i - 1) : ~ts[j].completed
              IN  SubSeq(ts, 1, k - 1) \o SubSeq(ts, k + 1, Len(ts))
         ELSE ts

\* clear_completed_tasks; yes = the answer to the confirmation dialog.
clear_completed_tasks(ts, yes) ==
    IF ~\E i \in 1..Len(ts) : ts[i].completed
    THEN ts
    ELSE IF yes
         THEN LET Keep(t) == ~t.completed IN SelectSeq(ts, Keep)
         ELSE ts

(* ---------------------------------------------------------------------- *)
(* Sorting                                                                *)
(* ---------------------------------------------------------------------- *)

\* The characters of the model in code-point order.
CharOrder ==
    <<" ", "\"", "-", "0", "1", "2", "3", "4", "5", "A", "B", "F", "H", "L", "N", "T",
      "a", "b", "e", "g", "h", "i", "l", "m", "o", "r", "s", "u", "w">>

Ord(c) == CHOOSE i \in 1..Len(CharOrder) : CharOrder[i] = c

\* a < b on Python str
RECURSIVE StrLess(_, _)
StrLess(a, b) ==
    IF b = << >> THEN FALSE
    ELSE IF a = << >> THEN TRUE
    ELSE IF Head(a) # Head(b) THEN Ord(Head(a)) < Ord(Head(b))
    ELSE StrLess(Tail(a), Tail(b))

\* str(x.get(key, ""))
StrKey(t, key) ==
    CASE key = "text" -> t.text
      [] key = "due" -> t.due
      [] key = "priority" -> t.priority
      [] key = "completed" ->
            IF t.completed THEN <<"T", "r", "u", "e">> ELSE <<"F", "a", "l", "s", "e">>

priority_order_unknown_last(p) ==
    CASE p = <<"L", "o", "w">> -> 1
      [] p = <<"N", "o", "r", "m", "a", "l">> -> 2
      [] p = <<"H", "i", "g", "h">> -> 3
      [] OTHER -> 4

\* priority_order.get(x.get(key, ""), 0)
priority_order(p) ==
    CASE p = <<"L", "o", "w">> -> 1
      [] p = <<"N", "o", "r", "m", "a", "l">> -> 2
      [] p = <<"H", "i", "g", "h">> -> 3
      [] OTHER -> 0

\* key(a) < key(b) for the key function sort_tasks passes to list.sort
KeyLess(a, b, key) ==
    IF key = "priority"
    THEN priority_order(a.priority) < priority_order(b.priority)
    ELSE StrLess(StrKey(a, key), StrKey(b, key))

list_sort_ties_reversed(ts, key, reverse) ==
    LET Before(a, b) == IF reverse THEN KeyLess(b, a, key) ELSE KeyLess(a, b, key)
        Rank(i) ==
            1 + Cardinality({j \in 1..Len(ts) :
                               \/ Before(ts[j], ts[i])
                               \/ (IF reverse THEN j > i ELSE j < i) /\ ~Before(ts[i], ts[j])})
    IN  [k \in 1..Len(ts) |-> ts[CHOOSE i \in 1..Len(ts) : Rank(i) = k]]

\* list.sort(key=..., reverse=...): stable in both directions, so a task
\* lands behind every task that must precede it and behind the tasks of
\* equal key that stood before it.
list_sort(ts, key, reverse) ==
    LET Before(a, b) == IF reverse THEN KeyLess(b, a, key) ELSE KeyLess(a, b, key)
        Rank(i) ==
            1 + Cardinality({j \in 1..Len(ts) :
                               \/ Before(ts[j], ts[i])
                               \/ j < i /\ ~Before(ts[i], ts[j])})
    IN  [k \in 1..Len(ts) |-> ts[CHOOSE i \in 1..Len(ts) : Rank(i) = k]]

next_reverse_always_toggles(column, reverse, key) == ~reverse

\* sort_tasks, line 213: the direction of this sort.
next_reverse(column, reverse, key) == IF column = key THEN ~reverse ELSE FALSE

sort_tasks_always_ascending(ts, column, reverse, key) == list_sort(ts, key, FALSE)

\* sort_tasks: the list afterwards.
sort_tasks(ts, column, reverse, key) == list_sort(ts, key, next_reverse(column, reverse, key))

(* ---------------------------------------------------------------------- *)
(* Persistence: tasks.json                                                *)
(* ---------------------------------------------------------------------- *)

\* A JSON document is modelled member by member: an array is the sequence of
\* its objects, an object the sequence of its <<name, value>> members in the
\* order they were written, and a value the characters of its token.

Quote == "\""
Backslash == "\\"

RECURSIVE json_escape(_)
json_escape(s) ==
    IF s = << >> THEN << >>
    ELSE (IF Head(s) \in {Quote, Backslash} THEN <<Backslash, Head(s)>>
          ELSE <<Head(s)>>) \o json_escape(Tail(s))

json_string_raw(s) == <<Quote>> \o s \o <<Quote>>
json_string(s) == <<Quote>> \o json_escape(s) \o <<Quote>>

json_true == <<"t", "r", "u", "e">>
json_false == <<"f", "a", "l", "s", "e">>
json_bool(b) == IF b THEN json_true ELSE json_false

\* json.dump of one task: the dict's members in the order submit built them.
json_dump_task(t) ==
    << <<"text", json_string(t.text)>>,
       <<"due", json_string(t.due)>>,
       <<"priority", json_string(t.priority)>>,
       <<"completed", json_bool(t.completed)>> >>

save_tasks(ts) == [i \in 1..Len(ts) |-> json_dump_task(ts[i])]

\* The characters of a string token from position i up to its closing quote.
RECURSIVE json_scanstring(_, _)
json_scanstring(v, i) ==
    IF i > Len(v) \/ v[i] = Quote THEN << >>
    ELSE IF v[i] = Backslash /\ i < Len(v)
         THEN <<v[i + 1]>> \o json_scanstring(v, i + 2)
         ELSE <<v[i]>> \o json_scanstring(v, i + 1)

json_value(v) ==
    IF v # << >> /\ v[1] = Quote THEN json_scanstring(v, 2) ELSE v = json_true

\* json.load of one object: a dict of the members' names, each with the value
\* of the last member of that name.
json_load_task(obj) ==
    LET Last(name) ==
            CHOOSE i \in 1..Len(obj) :
                /\ obj[i][1] = name
                /\ \A j \in (i + 1)..Len(obj) : obj[j][1] # name
    IN  [name \in {obj[i][1] : i \in 1..Len(obj)} |-> json_value(obj[Last(name)][2])]

load_tasks(document) == [i \in 1..Len(document) |-> json_load_task(document[i])]

(* ---------------------------------------------------------------------- *)
(* Initial state                                                          *)
(* ---------------------------------------------------------------------- *)

\* __init__ with no tasks.json to load: the list and the tree are empty.
Init ==
    /\ tasks = << >>
    /\ filter_state = "all"
    /\ sort_column = None
    /\ sort_reverse = FALSE
    /\ search_var = << >>
    /\ tree = << >>

\* __init__ with a tasks.json an earlier session saved: load_tasks has read
\* the list and filled the tree.
InitLoaded ==
    /\ tasks \in SavedLists(MaxSaved)
    /\ filter_state = "all"
    /\ sort_column = None
    /\ sort_reverse = FALSE
    /\ search_var = << >>
    /\ tree = update_task_list(tasks, "all", << >>)

(* ---------------------------------------------------------------------- *)
(* Actions: one per handler                                               *)
(* ---------------------------------------------------------------------- *)

Refresh == tree' = update_task_list(tasks', filter_state', search_var')

\* "+ Add Simple Task", then Submit.
AddSimple(limit) ==
    /\ Len(tasks) < limit
    /\ \E task_text \in AddTexts :
          /\ tasks' = submit(tasks, task_text, TRUE, Boxes(<< >>, << >>, << >>, << >>))
    /\ UNCHANGED <<filter_state, sort_column, sort_reverse, search_var>>
    /\ Refresh

\* "+ Add Detailed Task", then Submit.
AddDetailed(limit) ==
    /\ Len(tasks) < limit
    /\ \E task_text \in AddTexts, boxes \in DetailedInputs :
          /\ tasks' = submit(tasks, task_text, FALSE, boxes)
    /\ UNCHANGED <<filter_state, sort_column, sort_reverse, search_var>>
    /\ Refresh

\* Double click or Ctrl+Return on the focused row k of the tree; task_text is
\* the text that row shows.
Toggle ==
    /\ \E k \in 1..Len(tree) :
          tasks' = toggle_completion(tasks, tree[k].text)
    /\ UNCHANGED <<filter_state, sort_column, sort_reverse, search_var>>
    /\ Refresh

\* Delete or Ctrl+D on the focused row k of the tree.
Delete ==
    /\ \E k \in 1..Len(tree) :
          tasks' = delete_selected_task(tasks, tree[k].text)
    /\ UNCHANGED <<filter_state, sort_column, sort_reverse, search_var>>
    /\ Refresh

\* Right click on the focused row k of the tree, then Save.  The list is
\* changed and the view refreshed only when the entry is not empty.
Edit ==
    /\ UNCHANGED <<filter_state, sort_column, sort_reverse, search_var>>
    /\ \E k \in 1..Len(tree), new_text \in EditTexts,
          typed \in {NoChange} \cup {<<b>> : b \in DetailedInputs}, today \in Todays :
          /\ tasks' = edit_task(tasks, tree[k].text, new_text, typed, today)
          /\ IF Matches(tasks, tree[k].text) # {} /\ new_text # << >>
             THEN Refresh
             ELSE UNCHANGED tree

ClearAll ==
    /\ UNCHANGED <<filter_state, sort_column, sort_reverse, search_var>>
    /\ \E yes \in BOOLEAN :
          /\ tasks' = clear_all_tasks(tasks, yes)
          /\ IF tasks # << >> /\ yes THEN Refresh ELSE UNCHANGED tree

ClearCompleted ==
    /\ UNCHANGED <<filter_state, sort_column, sort_reverse, search_var>>
    /\ \E yes \in BOOLEAN :
          /\ tasks' = clear_completed_tasks(tasks, yes)
          /\ IF (\E i \in 1..Len(tasks) : tasks[i].completed) /\ yes
             THEN Refresh
             ELSE UNCHANGED tree

\* set_filter
SetFilter ==
    /\ \E state \in FilterStates : filter_state' = state
    /\ UNCHANGED <<tasks, sort_column, sort_reverse, search_var>>
    /\ Refresh

\* A key released in the search entry.
Search ==
    /\ \E typed \in SearchInputs : search_var' = typed
    /\ UNCHANGED <<tasks, filter_state, sort_column, sort_reverse>>
    /\ Refresh

\* sort_tasks(key)
SortBy(key) ==
    /\ sort_reverse' = next_reverse(sort_column, sort_reverse, key)
    /\ sort_column' = key
    /\ tasks' = sort_tasks(tasks, sort_column, sort_reverse, key)
    /\ UNCHANGED <<filter_state, search_var>>
    /\ Refresh

\* A click on a column heading.
Sort == \E key \in SortKeys : SortBy(key)

\* The window is closed, on_close saves the list, and the program is started
\* again: __init__ resets the view and load_tasks reads the file back.
Restart ==
    /\ filter_state' = "all"
    /\ sort_column' = None
    /\ sort_reverse' = FALSE
    /\ search_var' = << >>
    /\ LET document == save_tasks(tasks)
       IN  tasks' = load_tasks(document)
    /\ Refresh

Next ==
    \/ AddSimple(MaxTasks)
    \/ AddDetailed(MaxTasks)
    \/ Toggle
    \/ Delete
    \/ Edit
    \/ ClearAll
    \/ ClearCompleted
    \/ SetFilter
    \/ Search
    \/ Sort
    \/ Restart

\* Every handler that changes the list or the view.
Spec == Init /\ [][Next]_vars

NextStore ==
    \/ AddSimple(MaxStore)
    \/ AddDetailed(MaxStore)
    \/ Toggle
    \/ Delete
    \/ Edit
    \/ ClearAll
    \/ ClearCompleted

\* The operations on the task list alone, under the view the program starts
\* with (filter "all", no search, no sort).
SpecStore == Init /\ [][NextStore]_vars

NextView ==
    \/ AddSimple(MaxTasks)
    \/ AddDetailed(MaxTasks)
    \/ Toggle
    \/ Delete
    \/ Edit
    \/ ClearAll
    \/ ClearCompleted
    \/ SetFilter
    \/ Search

\* The task list and its filtered view: every handler but the column sort.
SpecView == Init /\ [][NextView]_vars

NextSorted ==
    \/ AddSimple(MaxTasks)
    \/ Toggle
    \/ Delete
    \/ Edit
    \/ ClearAll
    \/ ClearCompleted
    \/ SetFilter
    \/ Sort
    \/ Restart

\* Tasks without date and priority under the filter modes and the column
\* sort: every handler but the detailed New Task window and the search box.
SpecSorted == Init /\ [][NextSorted]_vars

NextLoaded ==
    \/ Sort
    \/ Restart

\* The column sort and the restart, from the lists a saved file can hold.
SpecLoaded == InitLoaded /\ [][NextLoaded]_vars

TypeOK ==
    /\ filter_state \in FilterStates
    /\ sort_column \in SortKeys \cup {None}
    /\ sort_reverse \in BOOLEAN
    /\ tree = update_task_list(tasks, filter_state, search_var)

(* ---------------------------------------------------------------------- *)
(* Properties                                                             *)
(* ---------------------------------------------------------------------- *)

\* The texts the properties hand to toggle, delete and edit: those a task can
\* have, so that each is at times present and at times absent.
RowTexts == {Blank, TextA, TextAB}

\* The search strings the properties evaluate the filter on.
Searches == SearchInputs \cup {<<"b">>, <<"A">>, <<"a", "b">>, <<"B", "a">>, Blank}

\* Position k holds the first task, in list order, whose text is task_text.
IsFirstMatch(ts, k, task_text) ==
    /\ k \in 1..Len(ts)
    /\ ts[k].text = task_text
    /\ \A j \in 1..(k - 1) : ts[j].text # task_text

\* new holds exactly the tasks of old at the positions in keep, in old's order.
IsRestriction(new, old, keep) ==
    /\ Len(new) = Cardinality(keep)
    /\ \A k \in 1..Len(new) : new[k] = old[Ascending(keep)[k]]

AnyBoxes == DetailedInputs

\* C1: an add whose text is not empty after trimming makes the list one
\* longer, puts the new task, not completed, at the end, and leaves the tasks
\* that were there as they were, in their order.
AddAppendsOne ==
    \A task_text \in AddTexts, simple \in BOOLEAN, boxes \in AnyBoxes :
        Strip(task_text) # << >> =>
            LET new == submit(tasks, task_text, simple, boxes)
            IN  /\ Len(new) = Len(tasks) + 1
                /\ new[Len(new)].text = task_text
                /\ new[Len(new)].completed = FALSE
                /\ SubSeq(new, 1, Len(tasks)) = tasks

\* A list of three: a detailed task was added behind a completed task.
AddAppendsOneWitness ==
    /\ Len(tasks) = 3
    /\ tasks[1].completed
    /\ ~tasks[3].completed
    /\ tasks[3].due # << >>
    /\ Strip(tasks[3].text) # << >>

\* C2: an add whose text is empty or only whitespace leaves the list as it is.
AddBlankRejected ==
    \A task_text \in AddTexts, simple \in BOOLEAN, boxes \in AnyBoxes :
        Strip(task_text) = << >> => submit(tasks, task_text, simple, boxes) = tasks

\* A list that holds tasks and has room for more, on which a text of
\* whitespace alone is submitted and refused.
AddBlankRejectedWitness ==
    /\ tasks # << >>
    /\ Len(tasks) < MaxStore
    /\ \E task_text \in AddTexts :
          /\ task_text # << >>
          /\ Strip(task_text) = << >>
          /\ submit(tasks, task_text, TRUE, CHOOSE b \in AnyBoxes : TRUE) = tasks

\* C3: no task's text is ever empty, empty being judged as add judges it
\* (empty after trimming).
TextNeverEmpty ==
    \A i \in 1..Len(tasks) : Strip(tasks[i].text) # << >>

\* C4: toggle_completion(text) flips completed on the first task whose text
\* is text and changes nothing else; with no such task the list is unchanged.
ToggleFlipsFirstOnly ==
    \A task_text \in RowTexts :
        LET new == toggle_completion(tasks, task_text)
        IN  /\ Len(new) = Len(tasks)
            /\ \A k \in 1..Len(tasks) :
                  IF IsFirstMatch(tasks, k, task_text)
                  THEN new[k] = [tasks[k] EXCEPT !.completed = ~tasks[k].completed]
                  ELSE new[k] = tasks[k]

\* Two tasks of one text, the first completed and the second not: the toggle
\* has flipped the first and left the later one.
ToggleFlipsFirstOnlyWitness ==
    \E i, j \in 1..Len(tasks) :
        /\ i < j
        /\ IsFirstMatch(tasks, i, tasks[j].text)
        /\ tasks[i].completed
        /\ ~tasks[j].completed
        /\ toggle_completion(tasks, tasks[j].text)[j] = tasks[j]

\* C5: two toggles of the same text in a row give back the list as it was.
ToggleTwiceRestores ==
    \A task_text \in RowTexts :
        toggle_completion(toggle_completion(tasks, task_text), task_text) = tasks

\* A toggled (completed) task whose text a later task shares: toggling that
\* text changes the list, and toggling it again is what restores it.
ToggleTwiceRestoresWitness ==
    \E i, j \in 1..Len(tasks) :
        /\ i < j
        /\ IsFirstMatch(tasks, i, tasks[j].text)
        /\ tasks[i].completed
        /\ tasks[j].completed
        /\ toggle_completion(tasks, tasks[i].text) # tasks

\* C6: delete(text) removes every task whose text is text, keeps the others
\* as they are and in their order, and changes nothing when none matches.
DeleteRemovesAllMatches ==
    \A task_text \in RowTexts :
        LET new == delete_selected_task(tasks, task_text)
            keep == {i \in 1..Len(tasks) : tasks[i].text # task_text}
        IN  /\ IsRestriction(new, tasks, keep)
            /\ \A k \in 1..Len(new) : new[k].text # task_text
            /\ (\A i \in 1..Len(tasks) : tasks[i].text # task_text) => new = tasks

\* Three tasks, the first and the last of one text and the middle one of
\* another: deleting that text removes two tasks and keeps the middle one.
DeleteRemovesAllMatchesWitness ==
    /\ Len(tasks) = 3
    /\ tasks[1].text = tasks[3].text
    /\ tasks[2].text # tasks[1].text
    /\ delete_selected_task(tasks, tasks[1].text) = <<tasks[2]>>

\* C7: an edit in which the user changes the text alone changes only the text
\* of the first task matching old_text; its due, priority and completed, and
\* every other task, stay as they were.
EditTextOnlyPreservesRest ==
    \A old_text \in RowTexts, new_text \in EditTexts \ {<< >>}, today \in Todays :
        LET new == edit_task(tasks, old_text, new_text, NoChange, today)
        IN  /\ Len(new) = Len(tasks)
            /\ \A k \in 1..Len(tasks) :
                  IF IsFirstMatch(tasks, k, old_text)
                  THEN new[k] = [tasks[k] EXCEPT !.text = new_text]
                  ELSE new[k] = tasks[k]

\* C8: a confirmed clear_completed removes every completed task and keeps
\* the others in their order; the "completed" filter then shows nothing.
ClearCompletedRemovesCompleted ==
    LET new == clear_completed_tasks(tasks, TRUE)
        keep == {i \in 1..Len(tasks) : ~tasks[i].completed}
    IN  /\ IsRestriction(new, tasks, keep)
        /\ \A k \in 1..Len(new) : ~new[k].completed
        /\ \A search \in Searches :
              /\ Shown(new, "completed", search) = << >>
              /\ update_task_list(new, "completed", search) = << >>

\* Three tasks, the middle one completed and the outer two not: the clear
\* removes one task and keeps the two others in their order.
ClearCompletedRemovesCompletedWitness ==
    /\ Len(tasks) = 3
    /\ ~tasks[1].completed
    /\ tasks[2].completed
    /\ ~tasks[3].completed
    /\ tasks[1] # tasks[3]
    /\ clear_completed_tasks(tasks, TRUE) = <<tasks[1], tasks[3]>>

Range(seq) == {seq[k] : k \in 1..Len(seq)}

\* C9: for any search string the tasks shown under "active" and the tasks
\* shown under "completed" are disjoint and together are the tasks shown
\* under "all".
FilterPartition ==
    \A search \in Searches :
        LET active == Range(Shown(tasks, "active", search))
            completed == Range(Shown(tasks, "completed", search))
            all == Range(Shown(tasks, "all", search))
        IN  /\ active \cap completed = {}
            /\ active \cup completed = all

\* "Show Completed" with a search typed, on a list of a completed and an
\* active task that both match: the tree shows one of the two.
FilterPartitionWitness ==
    /\ Len(tasks) = 2
    /\ filter_state = "completed"
    /\ search_var # << >>
    /\ Len(tree) = 1
    /\ Range(Shown(tasks, "active", search_var)) # {}
    /\ Range(Shown(tasks, "all", search_var)) = {1, 2}

\* Task i passes filter mode fstate.
PassesMode(ts, i, fstate) ==
    \/ fstate = "all"
    \/ fstate = "active" /\ ~ts[i].completed
    \/ fstate = "completed" /\ ts[i].completed

\* The tree holds the rows of the tasks at the positions in shown, in list
\* order.
TreeShows(shown) ==
    /\ Len(tree) = Cardinality(shown)
    /\ \A k \in 1..Len(tree) : tree[k] = Row(tasks[Ascending(shown)[k]])

\* C10 as stated: a task that passes the filter mode is shown if and only if
\* the search string, compared without regard to case, is a substring of its
\* text.
SearchIsSubstring ==
    TreeShows({i \in 1..Len(tasks) :
                 /\ PassesMode(tasks, i, filter_state)
                 /\ Contains(Lower(tasks[i].text), Lower(search_var))})

\* The view is the one of SearchIsTrimmedSubstring below, in every mode and
\* for every search string.
TrimmedSubstringShown ==
    /\ TreeShows({i \in 1..Len(tasks) :
                    /\ PassesMode(tasks, i, filter_state)
                    /\ Contains(Lower(tasks[i].text), Strip(Lower(search_var)))})
    /\ \A fstate \in FilterStates, search \in Searches :
          Range(Shown(tasks, fstate, search)) =
              {i \in 1..Len(tasks) :
                 /\ PassesMode(tasks, i, fstate)
                 /\ Contains(Lower(tasks[i].text), Strip(Lower(search)))}

\* C10 as amended: a task that passes the filter mode is shown if and only if
\* the search string, with the whitespace at its ends removed and compared
\* without regard to case, is a substring of its text; a step that changes
\* the filter mode or the search string leaves the tasks and their order as
\* they were.
SearchIsTrimmedSubstring ==
    /\ []TrimmedSubstringShown
    /\ [][(filter_state' # filter_state \/ search_var' # search_var) => tasks' = tasks]_vars

\* " b" is searched under "Show Active" on a list of "aB" and "a", neither
\* completed: the tree shows "aB" alone.
SearchIsTrimmedSubstringWitness ==
    /\ Len(tasks) = 2
    /\ search_var = <<" ", "b">>
    /\ filter_state = "active"
    /\ {tasks[1].text, tasks[2].text} = {TextA, TextAB}
    /\ ~tasks[1].completed /\ ~tasks[2].completed
    /\ Len(tree) = 1
    /\ tree[1].text = TextAB

\* Every task whose priority is in P stands before every task whose priority
\* is in Q.
AllBefore(P, Q) ==
    \A i, j \in 1..Len(tasks) :
        tasks[i].priority \in P /\ tasks[j].priority \in Q => i < j

\* The priorities of the list that are none of the three names.
Unknown == {tasks[i].priority : i \in 1..Len(tasks)} \ {Low, Normal, High}

\* The list was last sorted by a click on this heading, in this direction.
LastSort(key, reverse) == sort_column = key /\ sort_reverse = reverse

\* C11 as stated: after an ascending sort by priority every Low task precedes
\* every Normal task, every Normal task precedes every High task, and the
\* tasks with an empty or unrecognised priority come after all High tasks.
UnknownPriorityLast ==
    LastSort("priority", FALSE) =>
        /\ AllBefore({Low}, {Normal})
        /\ AllBefore({Normal}, {High})
        /\ AllBefore({High}, Unknown)

\* C11 as amended: after an ascending sort by priority the tasks with an
\* empty or unrecognised priority come first, before every Low, Normal and
\* High task; then every Low task precedes every Normal and every High task,
\* and every Normal task precedes every High task.
UnknownPriorityFirst ==
    LastSort("priority", FALSE) =>
        /\ AllBefore(Unknown, {Low, Normal, High})
        /\ AllBefore({Low}, {Normal, High})
        /\ AllBefore({Normal}, {High})

\* An ascending sort by priority has left a task without priority first, a
\* Low task second and a High task last.
UnknownPriorityFirstWitness ==
    /\ LastSort("priority", FALSE)
    /\ Len(tasks) = 3
    /\ tasks[1].priority = << >>
    /\ tasks[2].priority = Low
    /\ tasks[3].priority = High

\* The list stands in the order of this key and direction: no task has a key
\* that the sort puts strictly before the key of a task ahead of it.
OrderedBy(ts, key, reverse) ==
    \A i, j \in 1..Len(ts) :
        i < j => IF reverse THEN ~KeyLess(ts[i], ts[j], key)
                            ELSE ~KeyLess(ts[j], ts[i], key)

\* What a step does to the remembered key and direction: a sort sets them, a
\* restart forgets them, and every other step (add, toggle, delete, edit,
\* clear, a change of the filter mode) leaves them alone.
SortMemoryStep ==
    /\ \A key \in SortKeys :
          SortBy(key) =>
              /\ sort_column' = key
              /\ sort_reverse' = (sort_column = key /\ ~sort_reverse)
              /\ OrderedBy(tasks', key, sort_reverse')
    /\ Restart => (sort_column' = None /\ sort_reverse' = FALSE)
    /\ ~(Sort \/ Restart) => UNCHANGED <<sort_column, sort_reverse>>

\* C12: the direction of sort(key) depends on the earlier sort calls alone.
\* The program starts with no key remembered; a sort on a key other than the
\* remembered one (so the first sort ever) is ascending, a sort on the
\* remembered key takes the opposite of the remembered direction, and either
\* leaves the list in that order and remembers its key and direction; a step
\* of add, edit, toggle, delete, clear or a filter change leaves the
\* remembered key and direction alone. A restart begins a new history.
SortDirectionFromHistory ==
    /\ sort_column = None /\ sort_reverse = FALSE
    /\ [][SortMemoryStep]_vars

\* After an add and a change of the filter mode, a second sort on the same
\* key has left two tasks of different texts in descending order of text.
SortDirectionFromHistoryWitness ==
    /\ LastSort("text", TRUE)
    /\ filter_state # "all"
    /\ Len(tasks) = 2
    /\ StrLess(tasks[2].text, tasks[1].text)

Reverse(ts) == [i \in 1..Len(ts) |-> ts[Len(ts) + 1 - i]]

\* Neither task's key sorts before the other's.
SameKey(a, b, key) == ~KeyLess(a, b, key) /\ ~KeyLess(b, a, key)

\* The tasks of ts whose key equals that of t, in the order they stand in.
KeyClass(ts, t, key) ==
    LET Same(u) == SameKey(u, t, key)
    IN  SelectSeq(ts, Same)

NoTies(ts, key) ==
    \A i, j \in 1..Len(ts) : i # j => ~SameKey(ts[i], ts[j], key)

\* C13 as stated: a sort on the key the list was sorted by just before leaves
\* the exact reverse of that list, tasks of equal keys included.
SecondSortReverses ==
    [][\A key \in SortKeys :
          SortBy(key) /\ sort_column = key => tasks' = Reverse(tasks)]_vars

\* What the second of two sorts on the same key leaves.
SecondSortStep ==
    \A key \in SortKeys :
        SortBy(key) /\ sort_column = key =>
            /\ sort_reverse' = ~sort_reverse
            /\ OrderedBy(tasks', key, ~sort_reverse)
            /\ Len(tasks') = Len(tasks)
            /\ \A i \in 1..Len(tasks) :
                  KeyClass(tasks', tasks[i], key) = KeyClass(tasks, tasks[i], key)
            /\ NoTies(tasks, key) => tasks' = Reverse(tasks)

\* C13 as amended: a sort on the key the list was sorted by just before
\* leaves the same tasks in the opposite direction of that key, the tasks of
\* equal keys in the relative order the first sort left them in; it is the
\* exact reverse of the first result when no two tasks have equal keys.
SecondSortKeepsTies == [][SecondSortStep]_vars

\* A second sort by priority has left two different High tasks ahead of a Low
\* task.
SecondSortKeepsTiesWitness ==
    /\ LastSort("priority", TRUE)
    /\ Len(tasks) = 3
    /\ tasks[1].priority = High
    /\ tasks[2].priority = High
    /\ tasks[1] # tasks[2]
    /\ tasks[3].priority = Low

\* Two lists of the same length that agree, place by place, on the text, the
\* date, the priority and the completion of the task.
SameTasks(a, b) ==
    /\ Len(a) = Len(b)
    /\ \A i \in 1..Len(a) :
          /\ DOMAIN b[i] = {"text", "due", "priority", "completed"}
          /\ a[i].text = b[i].text
          /\ a[i].due = b[i].due
          /\ a[i].priority = b[i].priority
          /\ a[i].completed = b[i].completed

\* C14: the list that load_tasks reads at the next start from the file
\* on_close saved equals the list at the time of closing: the same length,
\* the same order, and for every task the same text, date, priority and
\* completion.
SaveLoadRoundTrip == [][Restart => SameTasks(tasks, tasks')]_vars

\* The restarted program holds a completed task ahead of an open one whose
\* text ends in a double quote, and no sort is remembered.
SaveLoadRoundTripWitness ==
    /\ LastSort(None, FALSE)
    /\ Len(tasks) = 2
    /\ tasks[1].completed
    /\ tasks[1].due = Due2024
    /\ tasks[2].text = TextQuote
    /\ ~tasks[2].completed

\* C15 as stated: once a sort has been applied the list stands in the order
\* of the last sort's key and direction, whatever has run since.
OrderedByLastSort ==
    sort_column # None => OrderedBy(tasks, sort_column, sort_reverse)

\* new is old with one more task at the end.
Appended(new, old) ==
    /\ Len(new) = Len(old) + 1
    /\ SubSeq(new, 1, Len(old)) = old

\* new is old with at most one task changed where it stands.
ChangedInPlace(new, old) ==
    /\ Len(new) = Len(old)
    /\ Cardinality({i \in 1..Len(old) : new[i] # old[i]}) <= 1

\* new is old without some of its tasks, the others in old's order.
Removed(new, old) ==
    \E keep \in SUBSET (1..Len(old)) : IsRestriction(new, old, keep)

\* What a step does to the order of the list.
OrderStep ==
    /\ \A key \in SortKeys :
          SortBy(key) => OrderedBy(tasks', sort_column', sort_reverse')
    /\ AddSimple(MaxTasks) => (Appended(tasks', tasks) \/ tasks' = tasks)
    /\ (Toggle \/ Edit) => ChangedInPlace(tasks', tasks)
    /\ (Delete \/ ClearAll \/ ClearCompleted) => Removed(tasks', tasks)
    /\ (SetFilter \/ Restart) => tasks' = tasks

\* C15 as amended: the list stands in the order of a sort's key and direction
\* right after that sort, and no later step sorts it again: an add puts the
\* new task at the end, an edit or a toggle changes a task where it stands,
\* a delete or a clear removes tasks and leaves the others in their order,
\* and a change of the filter mode or a restart leaves the list as it is. So
\* before any sort the list is in insertion order, and after one it is the
\* sorted list with the later changes applied to it.
OrderFromLastSortAndLaterSteps == [][OrderStep]_vars

\* After an ascending sort by text, "a" has been added behind "aB", or "aB"
\* edited ahead of "a": the list is no longer in the order of the sort.
OrderFromLastSortAndLaterStepsWitness ==
    /\ LastSort("text", FALSE)
    /\ Len(tasks) = 2
    /\ tasks[1].text = TextAB
    /\ tasks[2].text = TextA

====
